---- MODULE Spec2Model ----
(***************************************************************************)
(* A model of the stock screening / forecasting demo:                      *)
(*   - predictor.py   FinancialPredictor (window construction, forecast)   *)
(*   - pages/1_...py  retrying fetchers and select_stocks                  *)
(*   - calculator.py  get_eps_from_web and calculate_pe_ratio              *)
(* Each component has its own specification over the shared variables;     *)
(* the variables of the other components stay at their idle values.        *)
(***************************************************************************)
EXTENDS Integers, Sequences, FiniteSets, TLC

\* ------------------------------------------------------------------ bounds
MaxDay == 5            \* timestamps of an input series are days 0..MaxDay
DaysPerQuarter == 2    \* a calendar quarter, scaled down to this many days
MaxH == 2              \* largest forecast horizon requested
JitterSteps == 2       \* resolution of the random backoff jitter, steps per second
MaxRows == 3           \* rows of the price frame given to calculate_pe_ratio
MaxPeriod == 4         \* largest moving-average period
MaxStocks == 2         \* rows of a snapshot table
MaxLimit == 2          \* largest `limit` asked for
MaxFrames == 3         \* distinct price frames the data source can return for a code
MaxReuseDay == 2       \* timestamps of the series given to calls on a reused instance

\* ------------------------------------------------------- program constants
SEQUENCE_LENGTH == 4   \* predictor.py:18  self.sequence_length

NaN == -1              \* the missing value pandas puts in an empty period
None == "None"
Vals == {1, 2}         \* values a series can carry
Days == 0 .. MaxDay

VARIABLES
  \* ---- FinancialPredictor: one call of predict_pe / predict_stock_price
  f_pc,            \* position in the call
  f_fn,            \* "predict_pe" | "predict_stock_price"
  f_type,          \* forecast_type ("daily" | "quarterly"); predict_pe: index.freq ("none" | "Q")
  model_type,      \* self.model_type
  model,           \* self.model : [state: "none" | "unfitted" | "fitted", table]
  model_before,    \* self.model as the call found it
  series,          \* the input series, a sequence of [t, v]
  H,               \* forecast_quarters / forecast_days
  processed,       \* quarterly_pe / processed_data
  seq_len,         \* actual_sequence_length / the seq_length argument
  XY,              \* the training pairs (X, y) of _create_sequences
  last_sequence,   \* the rolling window
  forecast,        \* predicted values so far
  forecast_index,  \* timestamps of the returned frame
  f_error,         \* the exception raised, or None
  \* ---- one call of a retrying fetcher
  r_pc,            \* "idle" | "trying" | "returned" | "raised"
  r_fn,            \* the fetch function running
  retry,           \* the loop variable `retry`
  retry_delay,     \* the local retry_delay, in time units
  r_trace,         \* what happened so far: attempts and sleeps, in order
  r_result,        \* the value returned
  r_error,         \* the exception that left the function, or None
  \* ---- one call of calculate_pe_ratio
  c_pc,            \* "idle" | "called" | "fetching" | "returned" | "raised"
  stock_history,   \* the close column of the frame passed in
  period_days,     \* the moving-average period
  eps,             \* the local eps, in tenths (0 before it is set)
  info_shown,      \* st.info told the user that a simulated EPS is used
  result_df,       \* the frame returned, a sequence of rows, or None
  \* ---- select_stocks, called once and then once more with the same arguments
  s_pc,            \* "idle" | "called" | "scanning" | "returned"
  basic_info,      \* the snapshot table, a sequence of rows
  sim_cols,        \* the table has the latest_close and price_trend columns
  criteria,        \* the keyword arguments of the call
  is_using_simulated_data,
  scan_rows,       \* the rows iterated: basic_info or filtered_basic
  pos,             \* the row the loop is at (processed_count + 1)
  selected_stocks, \* the candidate list
  k_resp,          \* what get_stock_k_data answered, per stock code
  s_trace,         \* fetches, examinations and pacing sleeps of this run, in order
  run,             \* 1 for the first call, 2 for the repeated call
  first_result,    \* the list the first call returned
  \* ---- fetch_stock_history, called again and again, and the file at CSV_PATH
  h_pc,            \* "idle" | "ready" | "returned"
  h_path,          \* "code": stock_code was passed; "form": the form was shown
  h_code,          \* the stock code passed or typed into the form (0: none)
  h_out,           \* how the live fetch of the last call went
  h_read,          \* whether the last call read the cache file, and how that went
  cache,           \* the file at CSV_PATH: NoCache, or the frame saved last
  h_result,        \* the value the last call returned
  h_messages       \* what the last call showed through st.*, in order

fvars == <<f_pc, f_fn, f_type, model_type, model, model_before, series, H, processed,
           seq_len, XY, last_sequence, forecast, forecast_index, f_error>>

rvars == <<r_pc, r_fn, retry, retry_delay, r_trace, r_result, r_error>>
cvars == <<c_pc, stock_history, period_days, eps, info_shown, result_df>>

svars == <<s_pc, basic_info, sim_cols, criteria, is_using_simulated_data,
           scan_rows, pos, selected_stocks, k_resp, s_trace, run, first_result>>

hvars == <<h_pc, h_path, h_code, h_out, h_read, cache, h_result, h_messages>>

vars == <<fvars, rvars, cvars, svars, hvars>>

\* ------------------------------------------------------------ small helpers
Min(a, b) == IF a <= b THEN a ELSE b
Max(a, b) == IF a >= b THEN a ELSE b
Abs(a) == IF a >= 0 THEN a ELSE -a
Last(s) == s[Len(s)]

RECURSIVE SumSeq(_)
SumSeq(s) == IF s = <<>> THEN 0 ELSE Head(s) + SumSeq(Tail(s))

\* the days of D in increasing order
RECURSIVE SortedDays(_)
SortedDays(D) ==
  IF D = {} THEN <<>>
  ELSE LET m == CHOOSE x \in D : \A y \in D : x <= y
       IN <<m>> \o SortedDays(D \ {m})

\* a series with timestamps D and values val[d]
SeriesOf(D, val) ==
  LET ds == SortedDays(D) IN [i \in 1 .. Len(ds) |-> [t |-> ds[i], v |-> val[ds[i]]]]

ValuesOf(s) == [i \in 1 .. Len(s) |-> s[i].v]

QuarterOf(t) == t \div DaysPerQuarter
QuarterEnd(q) == (q + 1) * DaysPerQuarter - 1

\* ================================================================ predictor

\* _create_sequences with the window cut one position late
CreateSequences_ShiftedWindow(data, seq_length) ==
  LET n == Len(data) - seq_length
  IN [i \in 1 .. Max(n, 0) |->
        [x |-> SubSeq(data, i + 1, i + seq_length), y |-> data[i + seq_length]]]

\* data.iloc[i:i+seq_length].values, data.iloc[i+seq_length] for i in
\* range(len(data) - seq_length); positions are 0-based in the source.
CreateSequences(data, seq_length) ==
  LET n == Len(data) - seq_length
  IN [i \in 1 .. Max(n, 0) |->
        [x |-> SubSeq(data, i, i + seq_length - 1), y |-> data[i + seq_length]]]

\* series.resample('Q').last(): one row per quarter from the first to the
\* last quarter that holds data, stamped with the quarter end, carrying the
\* last observation of the quarter, NaN for a quarter without observations.
ResampleQ(s) ==
  IF s = <<>> THEN <<>>
  ELSE LET q0 == QuarterOf(s[1].t)
           q1 == QuarterOf(s[Len(s)].t)
           InQ(q) == {i \in 1 .. Len(s) : QuarterOf(s[i].t) = q}
           LastIn(q) == CHOOSE i \in InQ(q) : \A j \in InQ(q) : j <= i
       IN [k \in 1 .. (q1 - q0 + 1) |->
             [t |-> QuarterEnd(q0 + k - 1),
              v |-> IF InQ(q0 + k - 1) = {} THEN NaN ELSE s[LastIn(q0 + k - 1)].v]]

HasNaN(vs) == \E i \in 1 .. Len(vs) : vs[i] = NaN

\* The pluggable regression capability, fit(X, y) / predict(window).  The
\* fitted model is the training table; a prediction is the target of the
\* nearest training row (first one on ties), a deterministic function of
\* the fitted model and the window as with random_state=42.
Distance(a, b) == SumSeq([i \in 1 .. Len(a) |-> Abs(a[i] - b[i])])
Predict(m, window) ==
  LET best == CHOOSE i \in 1 .. Len(m) :
                \A j \in 1 .. Len(m) :
                   \/ Distance(m[i].x, window) < Distance(m[j].x, window)
                   \/ (Distance(m[i].x, window) = Distance(m[j].x, window) /\ i <= j)
  IN m[best].y

\* the prediction written over the tail without the shift
RollIn_NoShift(window, pred) == SubSeq(window, 1, Len(window) - 1) \o <<pred>>

\* np.roll(last_sequence, -1); last_sequence[0, -1] = next_pred
RollIn(window, pred) == Tail(window) \o <<pred>>

\* pd.date_range(start, periods, freq): "D" counts days from start, "Q"
\* gives the quarter ends on or after start.
DateRange(start, periods, freq) ==
  IF freq = "D"
  THEN [k \in 1 .. periods |-> start + (k - 1)]
  ELSE [k \in 1 .. periods |-> QuarterEnd(QuarterOf(start) + (k - 1))]

\* pd.DateOffset(months=3) applied to a quarter end lands on the next
\* quarter end or one day short of it (Sep 30 -> Dec 30), by the calendar.
Months3 == {DaysPerQuarter - 1, DaysPerQuarter}

\* the index of a frequency-carrying quarterly series: consecutive quarter ends
IsQuarterEnds(D) ==
  /\ \A d \in D : d = QuarterEnd(QuarterOf(d))
  /\ \A d, e \in D : \A q \in QuarterOf(d) .. QuarterOf(e) : QuarterEnd(q) \in D

FCalls ==
  { <<"predict_stock_price", "daily">>, <<"predict_stock_price", "quarterly">>,
    <<"predict_pe", "none">>, <<"predict_pe", "Q">>,
    <<"_create_sequences", "direct">> }

\* self.model = None
NoModel == [state |-> "none", table |-> <<>>]

\* FinancialPredictor(model_type) followed by one call with its arguments
FInit ==
  /\ f_pc = "called"
  /\ \E c \in FCalls : f_fn = c[1] /\ f_type = c[2]
  /\ model_type \in {"random_forest", "linear_regression"}
  /\ model = NoModel /\ model_before = NoModel
  /\ \E D \in SUBSET Days : \E val \in [D -> Vals] :
        /\ (f_fn = "predict_pe" /\ f_type = "Q") => IsQuarterEnds(D)
        /\ series = SeriesOf(D, val)
  /\ IF f_fn = "_create_sequences" THEN H = 0 ELSE H \in 0 .. MaxH
  /\ processed = <<>>
  /\ IF f_fn = "_create_sequences" THEN seq_len \in 0 .. (MaxDay + 2) ELSE seq_len = 0
  /\ XY = <<>>
  /\ last_sequence = <<>>
  /\ forecast = <<>>
  /\ forecast_index = <<>>
  /\ f_error = None

\* no forecast call is in progress
FIdle ==
  /\ f_pc = "idle" /\ f_fn = None /\ f_type = None /\ model_type = None
  /\ model = NoModel /\ model_before = NoModel
  /\ series = <<>> /\ H = 0 /\ processed = <<>>
  /\ seq_len = 0 /\ XY = <<>> /\ last_sequence = <<>> /\ forecast = <<>>
  /\ forecast_index = <<>> /\ f_error = None

\* predictor.py 54-58 and 124-133: pick the series the windows are cut from.
\* predict_pe compares index.freq with DateOffset(months=3) when the index
\* carries a frequency; pandas offsets are not ordered, so the comparison
\* either raises or, where it answers, finds the quarterly index not finer.
Prepare ==
  /\ f_pc = "called"
  /\ \/ /\ f_fn = "predict_stock_price" /\ f_type = "daily"
        /\ processed' = series
        /\ f_pc' = "prepared" /\ f_error' = f_error
     \/ /\ \/ f_fn = "predict_stock_price" /\ f_type = "quarterly"
           \/ f_fn = "predict_pe" /\ f_type = "none"
        /\ processed' = ResampleQ(series)
        /\ f_pc' = "prepared" /\ f_error' = f_error
     \/ /\ f_fn = "predict_pe" /\ f_type = "Q"
        /\ \/ processed' = series /\ f_pc' = "prepared" /\ f_error' = f_error
           \/ processed' = processed /\ f_pc' = "raised" /\ f_error' = "TypeError"
  /\ UNCHANGED <<f_fn, f_type, model_type, model, series, H, seq_len, XY,
                 last_sequence, forecast, forecast_index>>
  /\ UNCHANGED <<model_before, rvars, cvars, svars, hvars>>

\* predictor.py 20-39: _create_sequences called on its own
CallCreateSequences ==
  /\ f_pc = "called"
  /\ f_fn = "_create_sequences"
  /\ processed' = series
  /\ XY' = CreateSequences(ValuesOf(series), seq_len)
  /\ f_pc' = "returned"
  /\ UNCHANGED <<f_fn, f_type, model_type, model, series, H, seq_len,
                 last_sequence, forecast, forecast_index, f_error>>
  /\ UNCHANGED <<model_before, rvars, cvars, svars, hvars>>

\* predictor.py 61-69 and 136-144: the insufficient-history check, the
\* window length and the training pairs.
AvailableSequenceLength_NoMinusOne == Len(processed)

AvailableSequenceLength == Len(processed) - 1
ActualSequenceLength == Min(SEQUENCE_LENGTH, AvailableSequenceLength)
BuildWindows ==
  /\ f_pc = "prepared"
  /\ IF AvailableSequenceLength < 1
     THEN /\ f_pc' = "raised"
          /\ f_error' = "ValueError:insufficient"
          /\ UNCHANGED <<seq_len, XY>>
     ELSE /\ seq_len' = ActualSequenceLength
          /\ XY' = CreateSequences(ValuesOf(processed), ActualSequenceLength)
          /\ f_pc' = "windowed"
          /\ f_error' = f_error
  /\ UNCHANGED <<f_fn, f_type, model_type, model, series, H, processed,
                 last_sequence, forecast, forecast_index>>
  /\ UNCHANGED <<model_before, rvars, cvars, svars, hvars>>

\* predictor.py 72-81 and 147-156: a new model replaces self.model and is
\* fitted; then the window is seeded with the last L known values.
\* sklearn rejects NaN targets; NaN features are rejected by
\* LinearRegression and, depending on the version, by the forest.
FitRejects ==
  \/ \E i \in 1 .. Len(XY) : XY[i].y = NaN
  \/ model_type = "linear_regression" /\ \E i \in 1 .. Len(XY) : HasNaN(XY[i].x)
FitMayReject == \E i \in 1 .. Len(XY) : HasNaN(XY[i].x)
SeedWindow(data, L) == SubSeq(data, Len(data) - L + 1, Len(data))

\* a model created once and kept: the one an earlier call left is used
\* again where it takes windows of the same length
FittedModel_KeepsEarlier(earlier, pairs) ==
  IF earlier.state = "fitted" /\ Len(earlier.table[1].x) = Len(pairs[1].x)
  THEN earlier
  ELSE [state |-> "fitted", table |-> pairs]

\* predictor.py 72-77 and 147-152: self.model = <new estimator>; fit(X, y)
FittedModel(earlier, pairs) == [state |-> "fitted", table |-> pairs]
Fit ==
  /\ f_pc = "windowed"
  /\ \/ /\ ~FitRejects
        /\ model' = FittedModel(model, XY)
        /\ last_sequence' = SeedWindow(ValuesOf(processed), seq_len)
        /\ forecast' = <<>>
        /\ f_pc' = "predicting"
        /\ f_error' = f_error
     \/ /\ FitRejects \/ FitMayReject
        /\ model' = [state |-> "unfitted", table |-> <<>>]
        /\ f_pc' = "raised"
        /\ f_error' = "ValueError:NaN"
        /\ UNCHANGED <<last_sequence, forecast>>
  /\ UNCHANGED <<f_fn, f_type, model_type, series, H, processed, seq_len, XY,
                 forecast_index>>
  /\ UNCHANGED <<model_before, rvars, cvars, svars, hvars>>

\* predictor.py 83-89 and 158-164: one turn of the forecast loop
PredictStep ==
  /\ f_pc = "predicting"
  /\ Len(forecast) < H
  /\ LET next_pred == Predict(model.table, last_sequence)
     IN /\ forecast' = Append(forecast, next_pred)
        /\ last_sequence' = RollIn(last_sequence, next_pred)
  /\ UNCHANGED <<f_pc, f_fn, f_type, model_type, model, series, H, processed,
                 seq_len, XY, forecast_index, f_error>>
  /\ UNCHANGED <<model_before, rvars, cvars, svars, hvars>>

\* the index started at last_date itself, the offset forgotten
ForecastIndex_NoOffset(last_date, off, periods, freq) == DateRange(last_date, periods, freq)

\* predictor.py 92-108 and 167-183: the index of the returned frame
ForecastIndex(last_date, off, periods, freq) == DateRange(last_date + off, periods, freq)
BuildFrame ==
  /\ f_pc = "predicting"
  /\ Len(forecast) = H
  /\ LET last_date == Last(processed).t
     IN IF f_fn = "predict_stock_price" /\ f_type = "daily"
        THEN forecast_index' = ForecastIndex(last_date, 1, H, "D")
        ELSE \E off \in Months3 : forecast_index' = ForecastIndex(last_date, off, H, "Q")
  /\ f_pc' = "returned"
  /\ UNCHANGED <<f_fn, f_type, model_type, model, series, H, processed,
                 seq_len, XY, last_sequence, forecast, f_error>>
  /\ UNCHANGED <<model_before, rvars, cvars, svars, hvars>>

ForecastNext ==
  \/ CallCreateSequences
  \/ Prepare
  \/ BuildWindows
  \/ Fit
  \/ PredictStep
  \/ BuildFrame


\* ================================================================= fetchers

\* One second is JitterSteps time units, so that random.uniform(0, 1)
\* seconds is one of 0 .. JitterSteps units.
Seconds(n) == n * JitterSteps
Jitter == 0 .. JitterSteps

\* price history as stock_zh_a_hist returns it: `len` rows whose closes
\* follow one of a few shapes; j counts rows from the latest (j = 1)
KPayloads ==
  { [shape |-> "up", len |-> 2], [shape |-> "up", len |-> 3],
    [shape |-> "down", len |-> 3], [shape |-> "flat", len |-> 3],
    [shape |-> "up", len |-> 59], [shape |-> "up", len |-> 60],
    [shape |-> "fade", len |-> 60], [shape |-> "down", len |-> 60] }
CloseAt(k, j) ==
  CASE k.shape = "up"   -> k.len - j + 1
    [] k.shape = "down" -> j
    [] k.shape = "flat" -> 10
    [] k.shape = "fade" -> IF j <= 5 THEN 20 ELSE IF j = 20 THEN 30 ELSE 1

BASIC_MAX_RETRIES == 3
BASIC_RETRY_DELAY == 3
KDATA_MAX_RETRIES == 2
KDATA_RETRY_DELAY == 2
EPS_MAX_RETRIES == 3
EPS_RETRY_DELAY == 2

FetchFns == {"get_stock_basic_info", "get_stock_k_data", "get_eps_from_web"}
MaxRetries(fn) ==
  CASE fn = "get_stock_basic_info" -> BASIC_MAX_RETRIES
    [] fn = "get_stock_k_data"     -> KDATA_MAX_RETRIES
    [] fn = "get_eps_from_web"     -> EPS_MAX_RETRIES
InitialDelay(fn) ==
  CASE fn = "get_stock_basic_info" -> Seconds(BASIC_RETRY_DELAY)
    [] fn = "get_stock_k_data"     -> Seconds(KDATA_RETRY_DELAY)
    [] fn = "get_eps_from_web"     -> Seconds(EPS_RETRY_DELAY)

\* EPS figures a page can carry, in tenths
EpsVals == {-5, 0, 20}

\* what one attempt of the external call can end in
ExceptionOutcome == [kind |-> "exception", value |-> None]
BasicOutcomes == {ExceptionOutcome, [kind |-> "ok", value |-> "basic_info"]}
KDataOutcomes == {ExceptionOutcome} \cup {[kind |-> "ok", value |-> k] : k \in KPayloads}
EpsOutcomes ==
  {ExceptionOutcome,                          \* requests raised RequestException
   [kind |-> "no_tag", value |-> None],       \* no <span>每股收益</span>
   [kind |-> "no_sibling", value |-> None],   \* find_next_sibling() is None
   [kind |-> "bad_text", value |-> None]}     \* float() cannot parse the text
  \cup {[kind |-> "ok", value |-> v] : v \in EpsVals}

\* a return value: None, or a payload
ReturnedNone == [kind |-> "None", value |-> 0]
Returned(v) == [kind |-> "value", value |-> v]

AttemptEvent(out) == [ev |-> "attempt", kind |-> out.kind, d |-> 0]
SleepEvent(d) == [ev |-> "sleep", kind |-> None, d |-> d]

\* the function is entered: pages/1 17-18, 77-78, calculator.py 12-13
FetchEntered(fn) ==
  /\ r_fn = fn
  /\ r_pc = "trying"
  /\ retry = 0
  /\ retry_delay = InitialDelay(fn)
  /\ r_trace = <<>>
  /\ r_result = ReturnedNone
  /\ r_error = None

\* the same entry, made from within a caller
EnterFetch(fn) ==
  /\ r_fn' = fn
  /\ r_pc' = "trying"
  /\ retry' = 0
  /\ retry_delay' = InitialDelay(fn)
  /\ r_trace' = <<>>
  /\ r_result' = ReturnedNone
  /\ r_error' = None

RIdle ==
  /\ r_pc = "idle" /\ r_fn = None /\ retry = 0 /\ retry_delay = 0
  /\ r_trace = <<>> /\ r_result = ReturnedNone /\ r_error = None

\* the except branch sleeping after the last attempt as well
SleepsAfterFailure_OneMore(fn, n) == n < MaxRetries(fn)

\* whether the except branch sleeps: `if retry < max_retries - 1`
SleepsAfterFailure(fn, n) == n < MaxRetries(fn) - 1

\* pages/1 43-44: retry_delay *= 2; retry_delay += random.uniform(0, 1)
BackoffDelay(d, jitter) == d * 2 + jitter

\* an obtained value counted as a success only when it is usable
AttemptSucceeded_UsableOnly(out) ==
  /\ out.kind = "ok"
  /\ r_fn = "get_eps_from_web" => out.value > 0

\* the try block ran to its `return` (pages/1 40, 109; calculator.py 24)
AttemptSucceeded(out) == out.kind = "ok"

\* pages/1 20-47: one turn of the loop of get_stock_basic_info
BasicInfoAttempt ==
  /\ r_pc = "trying" /\ r_fn = "get_stock_basic_info"
  /\ \E out \in BasicOutcomes :
       IF AttemptSucceeded(out)
       THEN /\ r_trace' = Append(r_trace, AttemptEvent(out))
            /\ r_result' = Returned(out.value)
            /\ r_pc' = "returned"
            /\ UNCHANGED <<retry, retry_delay>>
       ELSE IF SleepsAfterFailure(r_fn, retry)
       THEN /\ r_trace' = r_trace \o <<AttemptEvent(out), SleepEvent(retry_delay)>>
            /\ \E jitter \in Jitter : retry_delay' = BackoffDelay(retry_delay, jitter)
            /\ retry' = retry + 1
            /\ UNCHANGED <<r_result, r_pc>>
       ELSE /\ r_trace' = Append(r_trace, AttemptEvent(out))
            /\ r_result' = ReturnedNone
            /\ r_pc' = "returned"
            /\ UNCHANGED <<retry, retry_delay>>
  /\ UNCHANGED <<r_fn, r_error>>
  /\ UNCHANGED <<fvars, cvars, svars, hvars>>

\* pages/1 80-115: one turn of the loop of get_stock_k_data; the loop
\* running out falls through to `return None`
KDataAttempt ==
  /\ r_pc = "trying" /\ r_fn = "get_stock_k_data"
  /\ \E out \in KDataOutcomes :
       IF AttemptSucceeded(out)
       THEN /\ r_trace' = Append(r_trace, AttemptEvent(out))
            /\ r_result' = Returned(out.value)
            /\ r_pc' = "returned"
            /\ UNCHANGED retry
       ELSE IF SleepsAfterFailure(r_fn, retry)
       THEN /\ r_trace' = r_trace \o <<AttemptEvent(out), SleepEvent(retry_delay)>>
            /\ retry' = retry + 1
            /\ UNCHANGED <<r_result, r_pc>>
       ELSE /\ r_trace' = Append(r_trace, AttemptEvent(out))
            /\ r_result' = ReturnedNone
            /\ r_pc' = "returned"
            /\ UNCHANGED retry
  /\ UNCHANGED <<r_fn, retry_delay, r_error>>
  /\ UNCHANGED <<fvars, cvars, svars, hvars>>

\* calculator.py 15-32: one turn of the loop of get_eps_from_web; only
\* RequestException is caught, a parse error leaves the function
EpsAttempt ==
  /\ r_pc = "trying" /\ r_fn = "get_eps_from_web"
  /\ \E out \in EpsOutcomes :
       CASE AttemptSucceeded(out) ->
              /\ r_trace' = Append(r_trace, AttemptEvent(out))
              /\ r_result' = Returned(out.value)
              /\ r_pc' = "returned"
              /\ UNCHANGED <<retry, r_error>>
         [] out.kind = "no_tag" ->
              /\ r_trace' = Append(r_trace, AttemptEvent(out))
              /\ r_result' = ReturnedNone
              /\ r_pc' = "returned"
              /\ UNCHANGED <<retry, r_error>>
         [] out.kind = "no_sibling" ->
              /\ r_trace' = Append(r_trace, AttemptEvent(out))
              /\ r_error' = "AttributeError"
              /\ r_pc' = "raised"
              /\ UNCHANGED <<retry, r_result>>
         [] out.kind = "bad_text" ->
              /\ r_trace' = Append(r_trace, AttemptEvent(out))
              /\ r_error' = "ValueError"
              /\ r_pc' = "raised"
              /\ UNCHANGED <<retry, r_result>>
         [] OTHER ->                     \* the except branch
              IF SleepsAfterFailure(r_fn, retry)
              THEN /\ r_trace' = r_trace \o <<AttemptEvent(out), SleepEvent(retry_delay)>>
                   /\ retry' = retry + 1
                   /\ UNCHANGED <<r_result, r_pc, r_error>>
              ELSE /\ r_trace' = Append(r_trace, AttemptEvent(out))
                   /\ r_result' = ReturnedNone
                   /\ r_pc' = "returned"
                   /\ UNCHANGED <<retry, r_error>>
  /\ UNCHANGED <<r_fn, retry_delay>>
  /\ UNCHANGED <<fvars, svars, hvars>>
  /\ UNCHANGED <<c_pc, stock_history, period_days, eps, info_shown, result_df>>

\* =============================================================== calculator

FALLBACK_EPS == 15     \* calculator.py:57  eps = 1.5, in tenths

\* a ratio num/den; den = 0 is the missing value of a float column
NaNRat == [num |-> 0, den |-> 0]
IsNaNRat(r) == r.den = 0
RatEq(a, b) == a.num * b.den = b.num * a.den

Prices == {10, 20}
RECURSIVE SeqsUpTo(_, _)
SeqsUpTo(S, n) ==
  IF n = 0 THEN {<<>>}
  ELSE LET shorter == SeqsUpTo(S, n - 1)
       IN shorter \cup {Append(q, x) : q \in {r \in shorter : Len(r) = n - 1}, x \in S}

\* a rolling mean that fills the incomplete windows with zero
RollingMean_ZeroFill(ser, window, i) ==
  IF i < window THEN [num |-> 0, den |-> 1]
  ELSE [num |-> SumSeq([j \in 1 .. window |-> ser[i - window + j].num]),
        den |-> ser[i].den * window]

\* pe_series.rolling(window).mean() at row i: missing until the window is full
RollingMean(ser, window, i) ==
  IF i < window THEN NaNRat
  ELSE [num |-> SumSeq([j \in 1 .. window |-> ser[i - window + j].num]),
        den |-> ser[i].den * window]

\* calculator.py 59-67: the frame before and after dropna()
RatioRows(hist, e, window) ==
  LET current_price == hist[Len(hist)]
      pe_series == [i \in 1 .. Len(hist) |-> [num |-> current_price * 10, den |-> e]]
  IN [i \in 1 .. Len(hist) |->
        [close |-> hist[i], EPS |-> e, PE |-> pe_series[i],
         PE_MA |-> RollingMean(pe_series, window, i)]]
HasMissing(row) == IsNaNRat(row.PE) \/ IsNaNRat(row.PE_MA)
DropNa(rows) == SelectSeq(rows, LAMBDA row : ~HasMissing(row))

\* calculator.py 55: eps is None or eps <= 0
EpsUnusable(e) == IF e.kind = "None" THEN TRUE ELSE e.value <= 0

CIdle ==
  /\ c_pc = "idle" /\ stock_history = <<>> /\ period_days = 0
  /\ eps = 0 /\ info_shown = FALSE /\ result_df = None

\* calculate_pe_ratio(stock_history, stock_code, period_days) is called
CalcCalled ==
  /\ c_pc = "called"
  /\ stock_history \in SeqsUpTo(Prices, MaxRows)
  /\ period_days \in 1 .. MaxPeriod
  /\ eps = 0 /\ info_shown = FALSE /\ result_df = None

\* calculator.py 51-54: an empty frame returns None, else the EPS is fetched
CalcStart ==
  /\ c_pc = "called"
  /\ IF stock_history = <<>>
     THEN /\ c_pc' = "returned"
          /\ UNCHANGED rvars
     ELSE /\ c_pc' = "fetching"
          /\ EnterFetch("get_eps_from_web")
  /\ UNCHANGED <<stock_history, period_days, eps, info_shown, result_df>>
  /\ UNCHANGED <<fvars, svars, hvars>>

\* calculator.py 54-68: get_eps_from_web has returned
CalcFinish ==
  /\ c_pc = "fetching" /\ r_pc = "returned"
  /\ LET e == IF EpsUnusable(r_result) THEN FALLBACK_EPS ELSE r_result.value
     IN /\ eps' = e
        /\ info_shown' = EpsUnusable(r_result)
        /\ result_df' = DropNa(RatioRows(stock_history, e, period_days))
  /\ c_pc' = "returned"
  /\ UNCHANGED <<stock_history, period_days>>
  /\ UNCHANGED <<fvars, rvars, svars, hvars>>

\* calculator.py 54: an exception of get_eps_from_web is not caught here
CalcRaise ==
  /\ c_pc = "fetching" /\ r_pc = "raised"
  /\ c_pc' = "raised"
  /\ UNCHANGED <<stock_history, period_days, eps, info_shown, result_df>>
  /\ UNCHANGED <<fvars, rvars, svars, hvars>>

\* ================================================================ screening

Rat(n, d) == [num |-> n, den |-> d]
\* comparisons of ratios with positive denominators; a missing value
\* compares false with everything, as a float NaN does
RatLt(a, b) == /\ a.den # 0 /\ b.den # 0 /\ a.num * b.den < b.num * a.den
RatLe(a, b) == /\ a.den # 0 /\ b.den # 0 /\ a.num * b.den <= b.num * a.den

\* rows a snapshot table can hold; market value in units of 10^9
Profiles ==
  { [pe |-> 15, pb |-> 2, circulation_market_value |-> 2, latest_close |-> 10, price_trend |-> 10],
    [pe |-> 30, pb |-> 2, circulation_market_value |-> 4, latest_close |-> 20, price_trend |-> 0],
    [pe |-> 15, pb |-> 5, circulation_market_value |-> 3, latest_close |-> 5, price_trend |-> 100],
    [pe |-> 10, pb |-> 1, circulation_market_value |-> 1, latest_close |-> 8, price_trend |-> 120],
    [pe |-> 20, pb |-> 3, circulation_market_value |-> 5, latest_close |-> 12, price_trend |-> 50] }

\* the stock code of a row is its position in the table
TableOf(ps) ==
  [i \in 1 .. Len(ps) |->
     [code |-> i, pe |-> ps[i].pe, pb |-> ps[i].pb,
      circulation_market_value |-> ps[i].circulation_market_value,
      latest_close |-> ps[i].latest_close, price_trend |-> ps[i].price_trend]]

Codes == 1 .. MaxStocks

\* keyword arguments of select_stocks; the ones a mode does not read keep
\* the defaults of the signature (pages/1 145-147)
TrendCriteria ==
  [limit : 0 .. MaxLimit, selection_mode : {"price_trend"},
   price_trend_days : {2, 3},
   price_trend_min : {0, 100}, price_trend_max : {0, 100},
   pe_min : {0}, pe_max : {30}, pb_max : {5}, market_cap_min : {1}]
ComprehensiveCriteria ==
  [limit : 0 .. MaxLimit, selection_mode : {"comprehensive"},
   price_trend_days : {20},
   price_trend_min : {0}, price_trend_max : {100},
   pe_min : {0, 30}, pe_max : {0, 30}, pb_max : {5}, market_cap_min : {1}]
Criteria ==
  {c \in TrendCriteria : c.price_trend_min # c.price_trend_max}
  \cup {c \in ComprehensiveCriteria : c.pe_min # c.pe_max}

Unfetched == [kind |-> "unfetched", value |-> 0]

\* random.uniform(2, 300), random.uniform(-10, 30) and the three factors
\* random.uniform(0.95, 1.05), (0.9, 1.1), (0.85, 1.15), in percent
RandCloses == {2, 300}
RandTrends == {-10, 30}
RandMAFactors == { <<105, 100, 85>>, <<95, 110, 115>> }

SIdle ==
  /\ s_pc = "idle" /\ basic_info = <<>> /\ sim_cols = FALSE
  /\ criteria = None /\ is_using_simulated_data = FALSE
  /\ scan_rows = <<>> /\ pos = 0 /\ selected_stocks = <<>>
  /\ k_resp = <<>> /\ s_trace = <<>> /\ run = 0 /\ first_result = <<>>

\* select_stocks(basic_info, ...) is called; a table of real data has no
\* latest_close / price_trend column, a simulated one may lack them
SelectCalled ==
  /\ s_pc = "called"
  /\ \E ps \in SeqsUpTo(Profiles, MaxStocks) : basic_info = TableOf(ps)
  /\ criteria \in Criteria
  /\ is_using_simulated_data \in BOOLEAN
  /\ sim_cols \in BOOLEAN
  /\ ~is_using_simulated_data => ~sim_cols
  /\ scan_rows = <<>> /\ pos = 0 /\ selected_stocks = <<>>
  /\ k_resp = [c \in Codes |-> Unfetched]
  /\ s_trace = <<>> /\ run = 1 /\ first_result = <<>>

\* the fundamental filter with the upper PE bound taken inclusive
PassesBasic_PeInclusive(stock, c) ==
  /\ stock.pe > c.pe_min /\ stock.pe <= c.pe_max
  /\ stock.pb < c.pb_max
  /\ stock.circulation_market_value > c.market_cap_min

\* pages/1 236-240: the fundamental filter of the comprehensive mode
PassesBasic(stock, c) ==
  /\ stock.pe > c.pe_min /\ stock.pe < c.pe_max
  /\ stock.pb < c.pb_max
  /\ stock.circulation_market_value > c.market_cap_min
FilteredBasic(table, c) == SelectSeq(table, LAMBDA stock : PassesBasic(stock, c))

\* pages/1 163-177 and 231-245: the table the loop runs over
StartScan ==
  /\ s_pc = "called"
  /\ scan_rows' = IF criteria.selection_mode = "price_trend"
                  THEN basic_info
                  ELSE FilteredBasic(basic_info, criteria)
  /\ pos' = 1
  /\ s_pc' = "scanning"
  /\ UNCHANGED <<basic_info, sim_cols, criteria, is_using_simulated_data,
                 selected_stocks, k_resp, s_trace, run, first_result>>
  /\ UNCHANGED <<fvars, rvars, cvars, hvars>>

\* the sort keys compared the other way round, as without reverse=True
KeyLess_Ascending(a, b, mode) ==
  IF mode = "price_trend"
  THEN RatLt(b.price_trend, a.price_trend)
  ELSE b.circulation_market_value < a.circulation_market_value

\* the sort keys: pages/1 229 x['price_trend'], 302 x['circulation_market_value']
KeyLess(a, b, mode) ==
  IF mode = "price_trend"
  THEN RatLt(a.price_trend, b.price_trend)
  ELSE a.circulation_market_value < b.circulation_market_value

\* list.sort(key=..., reverse=True): descending and stable
RECURSIVE InsertDesc(_, _, _)
InsertDesc(sorted, x, mode) ==
  IF sorted = <<>> THEN <<x>>
  ELSE IF KeyLess(Head(sorted), x, mode) THEN <<x>> \o sorted
  ELSE <<Head(sorted)>> \o InsertDesc(Tail(sorted), x, mode)
RECURSIVE SortSelected(_, _)
SortSelected(list, mode) ==
  IF list = <<>> THEN <<>>
  ELSE InsertDesc(SortSelected(SubSeq(list, 1, Len(list) - 1), mode), list[Len(list)], mode)

\* what get_stock_k_data(code, days) can answer: None, or a frame of at
\* most `days` rows; a repeated call sees the answer of the first
KResponses(code, days) ==
  IF k_resp[code].kind # "unfetched" THEN {k_resp[code]}
  ELSE {ReturnedNone} \cup {Returned(k) : k \in {q \in KPayloads : q.len <= days}}

\* k_data['close'].rolling(window).mean() at the latest row
KMa(k, window) ==
  IF k.len < window THEN NaNRat
  ELSE Rat(SumSeq([j \in 1 .. window |-> CloseAt(k, j)]), window)

\* percentage change of the latest close against the row at iloc[-n]
PctChange(k, n) == Rat((CloseAt(k, 1) - CloseAt(k, n)) * 100, CloseAt(k, n))

\* pages/1 117-143
CalculateTechnicalIndicators(k) ==
  [is_ma_bullish |-> RatLt(KMa(k, 20), KMa(k, 5)) /\ RatLt(KMa(k, 60), KMa(k, 20)),
   price_trend |-> IF k.len >= 20 THEN PctChange(k, 20) ELSE Rat(0, 1),
   latest_close |-> CloseAt(k, 1),
   ma5 |-> KMa(k, 5), ma20 |-> KMa(k, 20), ma60 |-> KMa(k, 60)]

\* the trend test with the upper bound forgotten
TrendInRange_MinOnly(pt, c) == RatLe(Rat(c.price_trend_min, 1), pt)

\* pages/1 203: price_trend_min <= price_trend <= price_trend_max
TrendInRange(pt, c) ==
  /\ RatLe(Rat(c.price_trend_min, 1), pt)
  /\ RatLe(pt, Rat(c.price_trend_max, 1))

\* pages/1 275
PassesTechnical(ti) == ti.is_ma_bullish /\ RatLt(Rat(0, 1), ti.price_trend)

\* pages/1 221 and 295: the test that ends the loop after an append
LimitReached(list, limit) == Len(list) >= limit

\* pages/1 205-216
TrendInfo(stock, pt, latest, c) ==
  [code |-> stock.code, pe |-> stock.pe, pb |-> stock.pb,
   circulation_market_value |-> stock.circulation_market_value,
   price_trend |-> pt, price_trend_days |-> c.price_trend_days,
   latest_close |-> latest]

\* pages/1 277-290
ComprehensiveInfo(stock, ti) ==
  [code |-> stock.code, pe |-> stock.pe, pb |-> stock.pb,
   circulation_market_value |-> stock.circulation_market_value,
   price_trend |-> ti.price_trend, latest_close |-> ti.latest_close,
   ma5 |-> ti.ma5, ma20 |-> ti.ma20, ma60 |-> ti.ma60]

FetchEv(code) == [ev |-> "fetch", code |-> code]
ExamineEv(code) == [ev |-> "examine", code |-> code]
PaceEv == [ev |-> "sleep", code |-> 0]

\* the rest of a loop turn once the row is decided: append and maybe break
\* (then sort and return), else the pacing sleep and the next row
Decide(accept, info, evs, paced) ==
  IF accept /\ LimitReached(Append(selected_stocks, info), criteria.limit)
  THEN /\ selected_stocks' = SortSelected(Append(selected_stocks, info), criteria.selection_mode)
       /\ s_trace' = s_trace \o evs
       /\ s_pc' = "returned"
       /\ pos' = pos
  ELSE /\ selected_stocks' = IF accept THEN Append(selected_stocks, info) ELSE selected_stocks
       /\ s_trace' = s_trace \o evs \o (IF paced THEN <<PaceEv>> ELSE <<>>)
       /\ s_pc' = s_pc
       /\ pos' = pos + 1

\* the row dropped with `break` in the place of `continue`
Skip_Breaks(evs) ==
  /\ selected_stocks' = selected_stocks
  /\ s_trace' = s_trace \o evs
  /\ s_pc' = "returned"
  /\ pos' = pos

\* `continue`: the row is dropped and the loop goes on without the sleep
Skip(evs) ==
  /\ selected_stocks' = selected_stocks
  /\ s_trace' = s_trace \o evs
  /\ s_pc' = s_pc
  /\ pos' = pos + 1

\* stock.get(column, random default)
SimLatestClose(stock) == IF sim_cols THEN {stock.latest_close} ELSE RandCloses
SimPriceTrend(stock) == IF sim_cols THEN {stock.price_trend} ELSE RandTrends

\* pages/1 177-226: one turn of the loop of the price_trend mode
ScanTrend ==
  /\ s_pc = "scanning" /\ criteria.selection_mode = "price_trend"
  /\ pos <= Len(scan_rows)
  /\ LET stock == scan_rows[pos]
         n == criteria.price_trend_days
     IN IF is_using_simulated_data
        THEN /\ \E latest \in SimLatestClose(stock), pt \in SimPriceTrend(stock) :
                  Decide(TrendInRange(Rat(pt, 1), criteria),
                         TrendInfo(stock, Rat(pt, 1), latest, criteria),
                         <<ExamineEv(stock.code)>>, FALSE)
             /\ UNCHANGED k_resp
        ELSE \E resp \in KResponses(stock.code, n + 5) :
                /\ k_resp' = [k_resp EXCEPT ![stock.code] = resp]
                /\ IF resp.kind = "None"
                   THEN Skip(<<FetchEv(stock.code)>>)
                   ELSE IF resp.value.len < n
                   THEN Skip(<<FetchEv(stock.code)>>)
                   ELSE Decide(TrendInRange(PctChange(resp.value, n), criteria),
                               TrendInfo(stock, PctChange(resp.value, n),
                                         CloseAt(resp.value, 1), criteria),
                               <<FetchEv(stock.code), ExamineEv(stock.code)>>, TRUE)
  /\ UNCHANGED <<basic_info, sim_cols, criteria, is_using_simulated_data,
                 scan_rows, run, first_result>>
  /\ UNCHANGED <<fvars, rvars, cvars, hvars>>

\* pages/1 252-264: the indicators made up for a simulated row
SimIndicators(latest, pt, bullish, f) ==
  [is_ma_bullish |-> bullish, price_trend |-> Rat(pt, 1), latest_close |-> latest,
   ma5 |-> Rat(latest * f[1], 100), ma20 |-> Rat(latest * f[2], 100),
   ma60 |-> Rat(latest * f[3], 100)]

\* pages/1 245-299: one turn of the loop of the comprehensive mode
ScanComprehensive ==
  /\ s_pc = "scanning" /\ criteria.selection_mode = "comprehensive"
  /\ pos <= Len(scan_rows)
  /\ LET stock == scan_rows[pos]
     IN IF is_using_simulated_data
        THEN /\ \E latest \in SimLatestClose(stock), pt \in SimPriceTrend(stock),
                   bullish \in BOOLEAN, f \in RandMAFactors :
                  LET ti == SimIndicators(latest, pt, bullish, f)
                  IN Decide(PassesTechnical(ti), ComprehensiveInfo(stock, ti),
                            <<ExamineEv(stock.code)>>, TRUE)
             /\ UNCHANGED k_resp
        ELSE \E resp \in KResponses(stock.code, 120) :
                /\ k_resp' = [k_resp EXCEPT ![stock.code] = resp]
                /\ IF resp.kind = "None"
                   THEN Skip(<<FetchEv(stock.code)>>)
                   ELSE IF resp.value.len < 60
                   THEN Skip(<<FetchEv(stock.code)>>)
                   ELSE LET ti == CalculateTechnicalIndicators(resp.value)
                        IN Decide(PassesTechnical(ti), ComprehensiveInfo(stock, ti),
                                  <<FetchEv(stock.code), ExamineEv(stock.code)>>, TRUE)
  /\ UNCHANGED <<basic_info, sim_cols, criteria, is_using_simulated_data,
                 scan_rows, run, first_result>>
  /\ UNCHANGED <<fvars, rvars, cvars, hvars>>

\* pages/1 228-229 and 301-306: the loop ran out of rows; sort and return
FinishScan ==
  /\ s_pc = "scanning"
  /\ pos > Len(scan_rows)
  /\ selected_stocks' = SortSelected(selected_stocks, criteria.selection_mode)
  /\ s_pc' = "returned"
  /\ UNCHANGED <<basic_info, sim_cols, criteria, is_using_simulated_data,
                 scan_rows, pos, k_resp, s_trace, run, first_result>>
  /\ UNCHANGED <<fvars, rvars, cvars, hvars>>

\* select_stocks is called again with the same table and the same
\* arguments, the fetches answering as they did
CallAgain ==
  /\ s_pc = "returned" /\ run = 1
  /\ run' = 2
  /\ first_result' = selected_stocks
  /\ s_pc' = "called"
  /\ scan_rows' = <<>> /\ pos' = 0 /\ selected_stocks' = <<>> /\ s_trace' = <<>>
  /\ UNCHANGED <<basic_info, sim_cols, criteria, is_using_simulated_data, k_resp>>
  /\ UNCHANGED <<fvars, rvars, cvars, hvars>>

\* ============================================================ price history

\* config.py 5: one file for every instrument; the stock code the frame
\* was fetched for is not part of the file and is kept here to tell frames apart
NoCache == [code |-> 0, rows |-> 0]

\* the frame ak.stock_zh_a_hist returns, its date column made the index
Frame(c, v) == [code |-> c, rows |-> v, index |-> "object"]
\* history_df.to_csv(CSV_PATH)
ToCsv(f) == [code |-> f.code, rows |-> f.rows]
\* pd.read_csv(CSV_PATH, index_col="date", parse_dates=True)
ReadCsv(file) == [code |-> file.code, rows |-> file.rows, index |-> "datetime64"]

CsvFiles == {ToCsv(Frame(c, v)) : c \in Codes, v \in 1 .. MaxFrames}

\* the try block: an exception, an empty frame, or a frame of that code
LiveOutcomes(c) ==
  {[kind |-> "exception", value |-> None], [kind |-> "empty", value |-> None]}
  \cup {[kind |-> "data", value |-> Frame(c, v)] : v \in 1 .. MaxFrames}

INFO_CACHE_LOADED == "info:cache_loaded"
WARNING_CACHE_FAILED == "warning:cache_failed"
WARNING_NO_CODE == "warning:no_code"
ERROR_NO_DATA == "error:no_data"
ERROR_FETCH_FAILED == "error:fetch_failed"
SUCCESS_SAVED == "success:saved"

\* the cached frame handed back without telling the user
LoadCachedData_Silent(file, readable) ==
  IF file = NoCache
  THEN [result |-> ReturnedNone, messages |-> <<>>, read |-> "none"]
  ELSE IF readable
  THEN [result |-> Returned(ReadCsv(file)), messages |-> <<>>, read |-> "ok"]
  ELSE [result |-> ReturnedNone, messages |-> <<WARNING_CACHE_FAILED>>, read |-> "failed"]

\* data_fetcher.py 104-113: _load_cached_data; without the file the
\* function falls off its end and returns None
LoadCachedData(file, readable) ==
  IF file = NoCache
  THEN [result |-> ReturnedNone, messages |-> <<>>, read |-> "none"]
  ELSE IF readable
  THEN [result |-> Returned(ReadCsv(file)), messages |-> <<INFO_CACHE_LOADED>>, read |-> "ok"]
  ELSE [result |-> ReturnedNone, messages |-> <<WARNING_CACHE_FAILED>>, read |-> "failed"]

HIdle ==
  /\ h_pc = "idle" /\ h_path = None /\ h_code = 0 /\ h_out = None
  /\ h_read = "none" /\ cache = NoCache /\ h_result = ReturnedNone
  /\ h_messages = <<>>

\* before the first call of a session: the file is absent, or is what an
\* earlier session saved
HistoryStart ==
  /\ h_pc = "ready" /\ h_path = None /\ h_code = 0 /\ h_out = None
  /\ h_read = "none" /\ h_result = ReturnedNone /\ h_messages = <<>>
  /\ cache \in {NoCache} \cup CsvFiles

\* data_fetcher.py 18-53: fetch_stock_history(stock_code)
HistoryByCode ==
  /\ h_pc \in {"ready", "returned"}
  /\ \E c \in Codes : \E out \in LiveOutcomes(c) :
       /\ h_code' = c
       /\ h_out' = out.kind
       /\ IF out.kind = "data"
          THEN /\ cache' = ToCsv(out.value)
               /\ h_result' = Returned(out.value)
          ELSE /\ cache' = cache
               /\ h_result' = ReturnedNone
  /\ h_path' = "code"
  /\ h_read' = "none"
  /\ h_messages' = <<>>
  /\ h_pc' = "returned"
  /\ UNCHANGED <<fvars, rvars, cvars, svars>>

\* the call ends in _load_cached_data() after showing `shown`
ReturnCached(shown) ==
  \E readable \in BOOLEAN :
     LET r == LoadCachedData(cache, readable)
     IN /\ h_result' = r.result
        /\ h_messages' = shown \o r.messages
        /\ h_read' = r.read
        /\ cache' = cache

\* data_fetcher.py 56-103: fetch_stock_history() with the form
HistoryByForm ==
  /\ h_pc \in {"ready", "returned"}
  /\ \E submit_button \in BOOLEAN, c \in {0} \cup Codes :
       /\ h_code' = c
       /\ IF ~submit_button
          THEN /\ h_out' = "not_submitted"
               /\ ReturnCached(<<>>)
          ELSE IF c = 0
          THEN /\ h_out' = "no_code"
               /\ ReturnCached(<<WARNING_NO_CODE>>)
          ELSE \E out \in LiveOutcomes(c) :
                 /\ h_out' = out.kind
                 /\ CASE out.kind = "data" ->
                           /\ cache' = ToCsv(out.value)
                           /\ h_result' = Returned(out.value)
                           /\ h_messages' = <<SUCCESS_SAVED>>
                           /\ h_read' = "none"
                      [] out.kind = "empty" -> ReturnCached(<<ERROR_NO_DATA>>)
                      [] out.kind = "exception" -> ReturnCached(<<ERROR_FETCH_FAILED>>)
  /\ h_path' = "form"
  /\ h_pc' = "returned"
  /\ UNCHANGED <<fvars, rvars, cvars, svars>>

HistoryInit == HistoryStart /\ FIdle /\ RIdle /\ CIdle /\ SIdle

HistoryNext ==
  \/ HistoryByCode
  \/ HistoryByForm

SpecHistory == HistoryInit /\ [][HistoryNext]_vars

SelectInit == SelectCalled /\ FIdle /\ RIdle /\ CIdle /\ HIdle

SelectNext ==
  \/ StartScan
  \/ ScanTrend
  \/ ScanComprehensive
  \/ FinishScan
  \/ CallAgain

SpecSelect == SelectInit /\ [][SelectNext]_vars

\* either one of the fetchers is called on its own, or calculate_pe_ratio is
FetchInit ==
  /\ FIdle
  /\ SIdle
  /\ HIdle
  /\ \/ /\ CIdle
        /\ \E fn \in FetchFns : FetchEntered(fn)
     \/ /\ CalcCalled
        /\ RIdle

FetchNext ==
  \/ BasicInfoAttempt
  \/ KDataAttempt
  \/ EpsAttempt
  \/ CalcStart
  \/ CalcFinish
  \/ CalcRaise

SpecFetch == FetchInit /\ [][FetchNext]_vars

ForecastInit == FInit /\ RIdle /\ CIdle /\ SIdle /\ HIdle

SpecForecast == ForecastInit /\ [][ForecastNext]_vars

\* ---- one FinancialPredictor instance used for call after call, as
\* pages/2 does with `predictor` for predict_pe and predict_stock_price
PredictCalls == {c \in FCalls : c[1] # "_create_sequences"}
ReuseDays == 0 .. MaxReuseDay

ReuseInit ==
  /\ f_pc = "called"
  /\ \E c \in PredictCalls : f_fn = c[1] /\ f_type = c[2]
  /\ model_type \in {"random_forest", "linear_regression"}
  /\ model = NoModel /\ model_before = NoModel
  /\ \E D \in SUBSET ReuseDays : \E val \in [D -> Vals] :
        /\ (f_fn = "predict_pe" /\ f_type = "Q") => IsQuarterEnds(D)
        /\ series = SeriesOf(D, val)
  /\ H \in 0 .. MaxH
  /\ processed = <<>> /\ seq_len = 0 /\ XY = <<>>
  /\ last_sequence = <<>> /\ forecast = <<>> /\ forecast_index = <<>>
  /\ f_error = None
  /\ RIdle /\ CIdle /\ SIdle /\ HIdle

\* the call has returned or raised: its locals are gone, the instance
\* keeps model_type and model
EndCall ==
  /\ f_pc \in {"returned", "raised"}
  /\ f_pc' = "ready"
  /\ f_fn' = None /\ f_type' = None /\ series' = <<>> /\ H' = 0
  /\ model_before' = NoModel
  /\ processed' = <<>> /\ seq_len' = 0 /\ XY' = <<>>
  /\ last_sequence' = <<>> /\ forecast' = <<>> /\ forecast_index' = <<>>
  /\ f_error' = None
  /\ UNCHANGED <<model_type, model>>
  /\ UNCHANGED <<rvars, cvars, svars, hvars>>

\* the same instance is called again, self.model being what the earlier
\* call left
NextCall ==
  /\ f_pc = "ready"
  /\ \E c \in PredictCalls : f_fn' = c[1] /\ f_type' = c[2]
  /\ \E D \in SUBSET ReuseDays : \E val \in [D -> Vals] :
        /\ (f_fn' = "predict_pe" /\ f_type' = "Q") => IsQuarterEnds(D)
        /\ series' = SeriesOf(D, val)
  /\ H' \in 0 .. MaxH
  /\ model_before' = model
  /\ f_pc' = "called"
  /\ UNCHANGED <<model_type, model, processed, seq_len, XY, last_sequence,
                 forecast, forecast_index, f_error>>
  /\ UNCHANGED <<rvars, cvars, svars, hvars>>

ReuseNext ==
  \/ Prepare
  \/ BuildWindows
  \/ Fit
  \/ PredictStep
  \/ BuildFrame
  \/ EndCall
  \/ NextCall

SpecReuse == ReuseInit /\ [][ReuseNext]_vars

\* =============================================================== properties

IsPredictCall == f_fn \in {"predict_pe", "predict_stock_price"}

\* the training pairs have been cut from `processed` with window `seq_len`
WindowsBuilt ==
  \/ f_pc \in {"windowed", "predicting"}
  \/ f_pc = "returned"
  \/ f_pc = "raised" /\ f_error = "ValueError:NaN"

\* C1: for a series S of at least 2 points and 1 <= L <= len(S) - 1,
\* _create_sequences yields exactly len(S) - L pairs, every feature vector
\* has length L, and pair i is (S[i], ..., S[i+L-1]) -> S[i+L].
C1_WindowConstruction ==
  (WindowsBuilt /\ Len(processed) >= 2 /\ seq_len >= 1 /\ seq_len <= Len(processed) - 1)
  => LET S == ValuesOf(processed)
         L == seq_len
     IN /\ Len(XY) = Len(S) - L
        /\ \A i \in 1 .. Len(XY) :
              /\ Len(XY[i].x) = L
              /\ \A j \in 1 .. L : XY[i].x[j] = S[i + j - 1]
              /\ XY[i].y = S[i + L]

C1_Witness ==
  /\ f_fn = "_create_sequences" /\ f_pc = "returned"
  /\ Len(processed) = 5 /\ seq_len = 2 /\ Len(XY) = 3
  /\ XY[2].x # XY[1].x

\* the returned frame: H points, strictly increasing timestamps, all later
\* than the last input timestamp, one granularity step apart
StepOf == IF f_fn = "predict_stock_price" /\ f_type = "daily" THEN 1 ELSE DaysPerQuarter
WellFormedForecast ==
  /\ Len(forecast_index) = H
  /\ Len(forecast) = H
  /\ \A k \in 1 .. Len(forecast_index) : forecast_index[k] > Last(series).t
  /\ \A k \in 1 .. (Len(forecast_index) - 1) :
        /\ forecast_index[k] < forecast_index[k + 1]
        /\ forecast_index[k + 1] = forecast_index[k] + StepOf

FTerminated == f_pc \in {"returned", "raised"}

Prepared ==
  \/ f_pc \in {"prepared", "windowed", "predicting", "returned"}
  \/ f_pc = "raised" /\ f_error # "TypeError"

\* C9: a call whose (resampled) series has fewer than 2 points ends in the
\* insufficient-history error with no model fitted and no forecast returned;
\* with at least 2 points the window length L satisfies
\* 1 <= L <= min(sequence_length, len - 1) and there is a training pair.
C9_InsufficientHistory ==
  IsPredictCall =>
    /\ (Prepared /\ Len(processed) < 2)
       => /\ f_pc \in {"prepared", "raised"}
          /\ f_pc = "raised" => f_error = "ValueError:insufficient"
          /\ model.state = "none"
          /\ forecast = <<>> /\ forecast_index = <<>>
    /\ (Prepared /\ Len(processed) >= 2 /\ f_pc # "prepared")
       => /\ 1 <= seq_len
          /\ seq_len <= Min(SEQUENCE_LENGTH, Len(processed) - 1)
          /\ Len(XY) >= 1

C9_Witness ==
  /\ IsPredictCall /\ f_pc = "raised" /\ f_error = "ValueError:insufficient"
  /\ Len(series) >= 2 /\ Len(processed) = 1
  /\ model.state = "none"

\* the attempts and the sleeps of the fetch so far
AttemptsOf(tr) == SelectSeq(tr, LAMBDA e : e.ev = "attempt")
SleepsOf(tr) == SelectSeq(tr, LAMBDA e : e.ev = "sleep")
AllAttemptsFailed == \A i \in 1 .. Len(r_trace) :
                        r_trace[i].ev = "attempt" => r_trace[i].kind = "exception"

\* C7: when the external call fails on every attempt, the fetch function
\* makes exactly max_retries attempts and returns None, sleeps only between
\* attempts (max_retries - 1 sleeps, none after the last attempt), and no
\* delay is shorter than the one before it.
C7_RetryExhausted ==
  (r_pc = "returned" /\ AllAttemptsFailed)
  => /\ Len(AttemptsOf(r_trace)) = MaxRetries(r_fn)
     /\ r_result.kind = "None"
     /\ Len(SleepsOf(r_trace)) = MaxRetries(r_fn) - 1
     /\ Len(r_trace) = 2 * MaxRetries(r_fn) - 1
     /\ \A i \in 1 .. Len(r_trace) :
           r_trace[i].ev = (IF i % 2 = 1 THEN "attempt" ELSE "sleep")
     /\ \A i \in 1 .. (Len(SleepsOf(r_trace)) - 1) :
           SleepsOf(r_trace)[i].d <= SleepsOf(r_trace)[i + 1].d

C7_Witness ==
  /\ r_fn = "get_stock_basic_info" /\ r_pc = "returned" /\ AllAttemptsFailed
  /\ Len(AttemptsOf(r_trace)) = 3
  /\ SleepsOf(r_trace)[1].d < SleepsOf(r_trace)[2].d

\* C8: with an EPS that is unavailable or not positive, calculate_pe_ratio
\* on n > 0 rows and period p uses the constant 1.5, tells the user, and
\* returns exactly max(0, n - p + 1) rows, the rows p..n of the input (the
\* first p - 1 are dropped), each with PE = latest close / 1.5.
C8_FallbackRatio ==
  (c_pc = "returned" /\ Len(stock_history) > 0 /\ EpsUnusable(r_result))
  => LET n == Len(stock_history)
         p == period_days
     IN /\ info_shown
        /\ eps = 15
        /\ Len(result_df) = Max(0, n - p + 1)
        /\ \A k \in 1 .. Len(result_df) :
              /\ result_df[k].close = stock_history[p - 1 + k]
              /\ result_df[k].EPS = 15
              /\ result_df[k].PE.den # 0
              /\ result_df[k].PE.num * 15 = stock_history[n] * 10 * result_df[k].PE.den
              /\ ~IsNaNRat(result_df[k].PE_MA)
              /\ RatEq(result_df[k].PE_MA, result_df[k].PE)

C8_Witness ==
  /\ c_pc = "returned" /\ Len(stock_history) = 3 /\ period_days = 2
  /\ r_result.kind = "value" /\ r_result.value <= 0
  /\ info_shown
  /\ Len(result_df) = 2
  /\ stock_history[1] # stock_history[2]

SelectRunning == s_pc \in {"scanning", "returned"}
TrendMode == s_pc # "idle" /\ criteria.selection_mode = "price_trend"
ComprehensiveMode == s_pc # "idle" /\ criteria.selection_mode = "comprehensive"

\* C3: in both modes and for every limit >= 0, limit = 0 included, the
\* candidate list never holds more than `limit` entries, neither during the
\* scan nor when returned.
C3_LimitBound ==
  SelectRunning => Len(selected_stocks) <= criteria.limit

\* C4: in the price_trend mode every candidate has
\* price_trend_min <= price_trend <= price_trend_max, bounds included.
C4_TrendWithinBounds ==
  (TrendMode /\ SelectRunning)
  => \A i \in 1 .. Len(selected_stocks) :
        LET pt == selected_stocks[i].price_trend
        IN /\ pt.den > 0
           /\ criteria.price_trend_min * pt.den <= pt.num
           /\ pt.num <= criteria.price_trend_max * pt.den

C4_Witness ==
  /\ TrendMode /\ s_pc = "returned" /\ ~is_using_simulated_data
  /\ Len(scan_rows) = 2 /\ Len(selected_stocks) = 1
  /\ selected_stocks[1].price_trend.num = criteria.price_trend_max * selected_stocks[1].price_trend.den
  /\ \E c \in Codes : /\ k_resp[c].kind = "value"
                      /\ k_resp[c].value.len >= criteria.price_trend_days
                      /\ c # selected_stocks[1].code

\* the fundamental conditions of C5 on a row of the snapshot
WithinFundamentals(row) ==
  /\ criteria.pe_min < row.pe /\ row.pe < criteria.pe_max
  /\ row.pb <= criteria.pb_max
  /\ row.circulation_market_value >= criteria.market_cap_min

CodesOf(list) == [i \in 1 .. Len(list) |-> list[i].code]
C6_Deterministic ==
  (s_pc = "returned" /\ run = 2 /\ criteria.limit >= 1
     /\ (is_using_simulated_data => sim_cols))
  => CodesOf(selected_stocks) = CodesOf(first_result)

InvalidCriteria ==
  \/ TrendMode /\ criteria.price_trend_min > criteria.price_trend_max
  \/ ComprehensiveMode /\ criteria.pe_min > criteria.pe_max

\* C10: a call with price_trend_min > price_trend_max (price_trend mode) or
\* pe_min > pe_max (comprehensive mode) is rejected before any row is
\* fetched or examined, and never returns a candidate list.
C10_CriteriaValidated ==
  InvalidCriteria => (s_trace = <<>> /\ s_pc # "returned")

\* the fetch of a scanned row failed on every attempt, or brought fewer
\* rows than the mode needs (pages/1 190 and 267)
RequiredRows == IF criteria.selection_mode = "price_trend"
                THEN criteria.price_trend_days ELSE 60
FetchFailed(code) ==
  \/ k_resp[code].kind = "None"
  \/ k_resp[code].kind = "value" /\ k_resp[code].value.len < RequiredRows

\* the row passes the mode's test on the history its own fetch brought
QualifiesOnHistory(code) ==
  /\ k_resp[code].kind = "value"
  /\ ~FetchFailed(code)
  /\ IF criteria.selection_mode = "price_trend"
     THEN TrendInRange(PctChange(k_resp[code].value, criteria.price_trend_days), criteria)
     ELSE PassesTechnical(CalculateTechnicalIndicators(k_resp[code].value))

\* the loop has dealt with row i of the table it runs over
Processed(i) == i < pos \/ (s_pc = "returned" /\ i <= pos)

\* C11 (state part): on real data a row whose fetch failed is left out and
\* the loop goes on: every row dealt with is in the list exactly when its
\* own history qualifies it, whatever happened to the rows before it, and
\* the run returns only after the last row or once the limit is reached.
C11_Isolation ==
  (SelectRunning /\ ~is_using_simulated_data)
  => /\ \A i \in 1 .. Len(scan_rows) :
           Processed(i) =>
              /\ k_resp[scan_rows[i].code].kind # "unfetched"
              /\ (\E j \in 1 .. Len(selected_stocks) :
                     selected_stocks[j].code = scan_rows[i].code)
                 <=> QualifiesOnHistory(scan_rows[i].code)
     /\ s_pc = "returned"
           => \/ \A i \in 1 .. Len(scan_rows) : Processed(i)
              \/ LimitReached(selected_stocks, criteria.limit)

\* C11: per-instrument failure isolation in both modes: a failed or too
\* short price-history fetch skips that instrument only, every other
\* instrument its own history qualifies is still selected, and the run
\* always completes: a failed fetch ends neither the loop nor the call, the
\* loop stays within the table or one row past it, and the call returns
\* only after the last row or at the limit.
C11_FailureIsolation ==
  /\ C11_Isolation
  /\ s_pc \in {"idle", "called", "scanning", "returned"}
  /\ SelectRunning => (pos >= 1 /\ pos <= Len(scan_rows) + 1)

C11_Witness ==
  /\ s_pc = "returned" /\ ~is_using_simulated_data
  /\ Len(scan_rows) = 2 /\ Len(selected_stocks) = 1
  /\ k_resp[scan_rows[1].code].kind = "None"
  /\ selected_stocks[1].code = scan_rows[2].code

\* C12: the returned list is ordered: price_trend non-increasing in the
\* price_trend mode, circulation_market_value non-increasing in the
\* comprehensive mode, and candidates with equal keys keep the order in
\* which the snapshot was scanned.
C12_ReturnedOrder ==
  s_pc = "returned"
  => \A i, j \in 1 .. Len(selected_stocks) :
        i < j =>
          LET a == selected_stocks[i]
              b == selected_stocks[j]
          IN IF criteria.selection_mode = "price_trend"
             THEN /\ RatLe(b.price_trend, a.price_trend)
                  /\ RatEq(a.price_trend, b.price_trend) => a.code < b.code
             ELSE /\ b.circulation_market_value <= a.circulation_market_value
                  /\ b.circulation_market_value = a.circulation_market_value
                       => a.code < b.code

C12_Witness ==
  /\ s_pc = "returned" /\ ComprehensiveMode /\ ~is_using_simulated_data
  /\ Len(selected_stocks) = 2
  /\ selected_stocks[1].code > selected_stocks[2].code
  /\ selected_stocks[1].circulation_market_value > selected_stocks[2].circulation_market_value

\* the last L elements of the known values followed by the first n predictions
WindowAfter(n) ==
  LET known == ValuesOf(processed) \o SubSeq(forecast, 1, n)
  IN SubSeq(known, Len(known) - seq_len + 1, Len(known))

\* C13: the multi-step forecast is iterative: the window is seeded with the
\* last L known values; before step k it is the last L elements of the
\* series followed by the first k-1 predictions, in order; output k is the
\* model's prediction on that window, appended to the output and rolled
\* into the tail of the window while the oldest element is dropped.
C13_IterativeForecast ==
  (IsPredictCall /\ f_pc \in {"predicting", "returned"})
  => /\ Len(last_sequence) = seq_len
     /\ last_sequence = WindowAfter(Len(forecast))
     /\ \A k \in 1 .. Len(forecast) :
           forecast[k] = Predict(model.table, WindowAfter(k - 1))

C13_Witness ==
  /\ IsPredictCall /\ f_pc = "returned"
  /\ H = 2 /\ Len(forecast) = 2 /\ seq_len >= 2
  /\ forecast[1] # forecast[2]
  /\ last_sequence # SeedWindow(ValuesOf(processed), seq_len)

\* the last attempt of get_eps_from_web got a response from which no EPS
\* could be extracted
ParseMiss ==
  /\ r_fn = "get_eps_from_web" /\ r_trace # <<>>
  /\ Last(r_trace).ev = "attempt"
  /\ Last(r_trace).kind \in {"no_tag", "no_sibling", "bad_text"}

\* C15: a parse miss is never a hard failure: when the response arrives but
\* the EPS cannot be extracted (label absent, no sibling element, sibling
\* text not a number) get_eps_from_web yields None and calculate_pe_ratio
\* completes through the fallback EPS instead of raising.
C15_ParseMissIsSoft ==
  ParseMiss
  => /\ r_pc = "returned" /\ r_result = ReturnedNone
     /\ c_pc # "raised"
     /\ c_pc = "returned" => (eps = FALLBACK_EPS /\ info_shown)

\* C16: no fetch function makes a further attempt after an attempt whose
\* response was obtained and parsed: the first successful attempt is the
\* last event of the call and its value is returned, so the number of
\* attempts is the index of the first success; a non-positive EPS is
\* replaced by the fallback downstream without another fetch.
C16_StopAtFirstSuccess ==
  /\ \A i \in 1 .. Len(r_trace) :
        (r_trace[i].ev = "attempt" /\ r_trace[i].kind = "ok")
        => /\ i = Len(r_trace)
           /\ r_pc = "returned"
           /\ r_result.kind = "value"
  /\ (c_pc = "returned" /\ r_result.kind = "value" /\ r_result.value <= 0)
        => /\ eps = FALLBACK_EPS
           /\ Last(r_trace).kind = "ok"

C16_Witness ==
  /\ c_pc = "returned" /\ r_fn = "get_eps_from_web"
  /\ r_result.kind = "value" /\ r_result.value <= 0
  /\ eps = FALLBACK_EPS
  /\ Len(AttemptsOf(r_trace)) = 2
  /\ r_trace[1].kind = "exception"

\* C18: in the comprehensive mode every returned candidate is in bullish
\* alignment on the indicators recorded with it (ma5 > ma20 > ma60) and has
\* price_trend > 0, and no instrument with fewer than 60 rows of history is
\* returned; on real and on simulated data alike.
C18_BullishAlignment ==
  (ComprehensiveMode /\ SelectRunning)
  => \A i \in 1 .. Len(selected_stocks) :
        LET s == selected_stocks[i]
        IN /\ RatLt(s.ma20, s.ma5) /\ RatLt(s.ma60, s.ma20)
           /\ RatLt(Rat(0, 1), s.price_trend)
           /\ ~is_using_simulated_data
                => /\ k_resp[s.code].kind = "value"
                   /\ k_resp[s.code].value.len >= 60

\* C19: in the price_trend mode on real data the trend of a candidate is
\* 100 * (close[last] - close[last - N]) / close[last - N] with
\* N = price_trend_days, the close exactly N rows before the latest, and an
\* instrument whose history has no row N periods before the latest is
\* skipped.  (stated for limit >= 1)
C19_TrendOverNPeriods ==
  (TrendMode /\ SelectRunning /\ ~is_using_simulated_data /\ criteria.limit >= 1)
  => \A i \in 1 .. Len(selected_stocks) :
        LET s == selected_stocks[i]
            k == k_resp[s.code].value
            N == criteria.price_trend_days
        IN /\ k_resp[s.code].kind = "value"
           /\ k.len >= N + 1
           /\ RatEq(s.price_trend, PctChange(k, N + 1))

\* row i of the scanned table passes the test of the price_trend mode
QualifiesTrend(i) ==
  IF is_using_simulated_data
  THEN TrendInRange(Rat(scan_rows[i].price_trend, 1), criteria)
  ELSE QualifiesOnHistory(scan_rows[i].code)

IsSelected(code) == \E j \in 1 .. Len(selected_stocks) : selected_stocks[j].code = code

\* the candidates taken from rows before the row with this code
AcceptedBefore(code) ==
  Cardinality({j \in 1 .. Len(selected_stocks) : selected_stocks[j].code < code})

\* C20: the price_trend scan stops as soon as `limit` candidates are
\* accumulated: no instrument after the limit-th accepted one is fetched or
\* evaluated, and the returned set is exactly the first `limit` instruments
\* in iteration order with sufficient history and a trend within bounds,
\* not the global top.  (stated for tables carrying the columns the
\* simulated scan reads)
C20_StopsAtLimit ==
  (TrendMode /\ s_pc = "returned" /\ (is_using_simulated_data => sim_cols))
  => /\ Len(selected_stocks) <= criteria.limit
     /\ \A e \in 1 .. Len(s_trace) :
           s_trace[e].ev \in {"fetch", "examine"}
              => AcceptedBefore(s_trace[e].code) < criteria.limit
     /\ \A i \in 1 .. Len(scan_rows) :
           IF Processed(i)
           THEN IsSelected(scan_rows[i].code) <=> QualifiesTrend(i)
           ELSE /\ ~IsSelected(scan_rows[i].code)
                /\ Len(selected_stocks) >= criteria.limit

\* what a newly constructed FinancialPredictor(model_type) computes from
\* the arguments of the call: the series the windows are cut from, the
\* training pairs, and the forecast values
FreshProcessed ==
  IF (f_fn = "predict_stock_price" /\ f_type = "daily")
       \/ (f_fn = "predict_pe" /\ f_type = "Q")
  THEN series ELSE ResampleQ(series)
FreshLength == Min(SEQUENCE_LENGTH, Len(FreshProcessed) - 1)
FreshPairs == CreateSequences(ValuesOf(FreshProcessed), FreshLength)
RECURSIVE IterForecast(_, _, _)
IterForecast(table, window, h) ==
  IF h = 0 THEN <<>>
  ELSE LET p == Predict(table, window)
       IN <<p>> \o IterForecast(table, Tail(window) \o <<p>>, h - 1)
FreshForecast ==
  IterForecast(FreshPairs,
               SubSeq(ValuesOf(FreshProcessed),
                      Len(FreshProcessed) - FreshLength + 1, Len(FreshProcessed)),
               H)

\* C17: the forecaster carries no state across calls: whatever calls were
\* made before on the instance, a call's result is the result a newly
\* constructed instance with the same model_type and sequence_length gives
\* on the same arguments; the model is created and fitted anew in every
\* call and the one left by an earlier call is never used.
C17_NoStateAcrossCalls ==
  /\ f_pc \in {"predicting", "returned"}
        => /\ Len(FreshProcessed) >= 2
           /\ model = [state |-> "fitted", table |-> FreshPairs]
  /\ f_pc = "returned"
        => /\ forecast = FreshForecast
           /\ Len(forecast_index) = H
  /\ (f_pc = "raised" /\ f_error = "ValueError:insufficient")
        => Len(FreshProcessed) < 2
  /\ (f_pc = "raised" /\ f_error = "ValueError:NaN")
        => \E i \in 1 .. Len(FreshPairs) :
              FreshPairs[i].y = NaN \/ HasNaN(FreshPairs[i].x)

C17_Witness ==
  /\ f_pc = "returned" /\ H = 2
  /\ model_before.state = "fitted"
  /\ model_before.table # model.table
  /\ Len(model_before.table[1].x) = Len(model.table[1].x)
  /\ forecast = FreshForecast
  /\ forecast # IterForecast(model_before.table, SeedWindow(ValuesOf(processed), seq_len), H)

\* the live fetch of the last call failed or brought no data
LiveFetchFailed == h_pc = "returned" /\ h_out \in {"exception", "empty"}

\* C14 as stated: whenever a live fetch fails or returns no data and a
\* previously fetched snapshot is in the cache, fetch_stock_history returns
\* the cached snapshot in its place and signals the substitution, on the
\* form-driven path and on the explicit stock_code path alike.
C14_Original ==
  (LiveFetchFailed /\ cache # NoCache)
  => /\ h_result = Returned(ReadCsv(cache))
     /\ \E i \in 1 .. Len(h_messages) : h_messages[i] = INFO_CACHE_LOADED

\* C14 (amended): on the form-driven path a failed or empty live fetch
\* returns the cached snapshot whenever the cache file exists and can be
\* read, and the substitution is signalled after the error message; a file
\* that cannot be read gives None and a warning.  On the explicit
\* stock_code path a failed or empty fetch returns None, reads no cache and
\* signals nothing.
C14_CacheFallback ==
  /\ (LiveFetchFailed /\ h_path = "form" /\ cache # NoCache)
       => IF h_read = "ok"
          THEN /\ h_result = Returned(ReadCsv(cache))
               /\ Len(h_messages) = 2
               /\ h_messages[1] \in {ERROR_NO_DATA, ERROR_FETCH_FAILED}
               /\ h_messages[2] = INFO_CACHE_LOADED
          ELSE /\ h_read = "failed"
               /\ h_result = ReturnedNone
               /\ h_messages[Len(h_messages)] = WARNING_CACHE_FAILED
  /\ (LiveFetchFailed /\ h_path = "code")
       => /\ h_result = ReturnedNone
          /\ h_read = "none"
          /\ h_messages = <<>>

C14_Witness ==
  /\ LiveFetchFailed /\ h_path = "form" /\ h_out = "exception"
  /\ cache # NoCache /\ cache.code # h_code
  /\ h_result = Returned(ReadCsv(cache))
  /\ h_messages = <<ERROR_FETCH_FAILED, INFO_CACHE_LOADED>>

\* C21: in a run on real data a pacing sleep lies between every two
\* consecutive per-instrument fetches: after the fetch of the first
\* instrument and before the fetch of the second, also when the first
\* instrument was skipped for a failed fetch or too short a history.
\* (stated for limit >= 1)
C21_PacedFetches ==
  (SelectRunning /\ ~is_using_simulated_data /\ criteria.limit >= 1)
  => \A i, j \in 1 .. Len(s_trace) :
        (i < j /\ s_trace[i].ev = "fetch" /\ s_trace[j].ev = "fetch")
        => \E k \in (i + 1) .. (j - 1) : s_trace[k].ev = "sleep"

\* C22: backoff is exponential with jitter in every fetch function: in
\* get_stock_basic_info, get_stock_k_data and get_eps_from_web the delay
\* slept before attempt k+1 is at least twice the delay slept before
\* attempt k, the rest being a non-negative jitter.
C22_ExponentialBackoff ==
  r_fn \in FetchFns
  => LET slept == SleepsOf(r_trace)
     IN \A k \in 1 .. Len(slept) - 1 : slept[k + 1].d >= 2 * slept[k].d

\* C23: over any sequence of fetch_stock_history calls for arbitrary
\* instruments the cache holds the payload of the most recent successful
\* non-empty fetch, a failed or empty fetch leaving it as it was, and
\* cached data returned as the fallback for a failed or empty fetch of
\* instrument c is history of that same instrument c.
C23_CacheOfSameInstrument ==
  [][ /\ cache' = IF h_out' = "data" THEN ToCsv(h_result'.value) ELSE cache
      /\ (h_out' \in {"exception", "empty"} /\ h_read' = "ok")
           => h_result'.value.code = h_code' ]_vars

====
